---- MODULE Spec2Model ----
(***************************************************************************)
(* The request pipeline of the "LLM Build & Deploy" server:                *)
(*   server/main.py        accept_task   (POST /task)                      *)
(*   server/github_ops.py  ensure_repo, sh, write_license_and_readme       *)
(*   server/generator.py   call_llm, builtin_template, materialize_app     *)
(*                                                                         *)
(* Strings the code inspects character by character (the task identifier,  *)
(* a shell command, an error message, the HTML template) are sequences of  *)
(* tokens; a token is a piece of text no operation of the code splits.     *)
(* Every invocation of accept_task is a frame of the sequence `handler`;   *)
(* the frames share the working trees on disk and the hosting provider.    *)
(* accept_task is a coroutine on the server's event loop: a frame runs,    *)
(* one call at a time, until it ends or is suspended at its one await that *)
(* waits (the HTTP exchange of call_llm); only then does another frame     *)
(* start or resume.  `loop` is the frame that holds the event loop.  A     *)
(* frame that ended (pc = "done") is answered to its caller and discarded: *)
(* what is kept of it is the request it served.                            *)
(***************************************************************************)
EXTENDS Integers, Sequences, FiniteSets, TLC

VARIABLES
    githubUser,     \* os.getenv("GITHUB_USER"), "" when unset
    llmConfigured,  \* LLM_BASE and LLM_KEY (generator.py:3-4,14)
    remote,         \* names of the repositories that exist at the hosting provider
    tree,           \* the working trees on disk, one per repository name
    handler,        \* the invocations of accept_task, in order of arrival
    loop,           \* the frames running on the event loop: one, or none (Idle)
    publisher,      \* a call of git_push_and_get_commit made on its own
    pushed,         \* the commits pushed: URL of the remote and commit
    notifier        \* a call of post_with_backoff made on its own

vars == <<githubUser, llmConfigured, remote, tree, handler, loop,
          publisher, pushed, notifier>>

(* The state of the functions called on their own, which accept_task       *)
(* never reaches.                                                          *)
direct == <<publisher, pushed, notifier>>

----------------------------------------------------------------------------
(* Bounds of the model. *)

NumRequests == 2        \* invocations of accept_task in one behaviour
MaxAttachments == 1     \* length of req.attachments
MaxFiles == 2           \* length of the provider's "files" list
MaxCalls == 2           \* calls of git_push_and_get_commit made on its own

----------------------------------------------------------------------------
(* Inputs. *)

SECRET == "s3cret"      \* the configured shared secret

Secrets == {SECRET, "wrong"}

Tasks == { <<"demo", "/", "app">>, <<"demo", "-", "app">>, <<"already exists">> }

Urls == {"https://img/1.png", "https://img/2.png"}

UrlAt(i) == IF i = 1 THEN "https://img/1.png" ELSE "https://img/2.png"

Attachment == [name : {"a.png"}, url : Urls]

SeqsUpTo(S, n) == UNION { [1..k -> S] : k \in 0..n }

TaskRequest ==
    [ email : {"me@example.com"}, secret : Secrets, task : Tasks, round : {1},
      nonce : {"n-1"}, brief : {"captcha solver"},
      evaluation_url : {"https://eval/notify"},
      attachments : SeqsUpTo(Attachment, MaxAttachments) ]

(* The requests sent: of a request with a wrong secret the handler reads   *)
(* the secret alone, so one such request stands for all of them; the       *)
(* requests with attachments are those for one of the tasks, and the       *)
(* first attachment of a request differs from the others.                  *)
Requests ==
    { q \in TaskRequest :
        /\ q.secret # SECRET => q.task = <<"demo", "/", "app">>
        /\ q.task # <<"demo", "-", "app">> => q.attachments = <<>>
        /\ \A i \in DOMAIN q.attachments : q.attachments[i].url = UrlAt(i) }

----------------------------------------------------------------------------
(* security.verify_secret: compares with the configured secret. *)
verify_secret(secret) == secret = SECRET

(* str.replace(old, new) on a token sequence. *)
replace(s, old, new) == [i \in DOMAIN s |-> IF s[i] = old THEN new ELSE s[i]]

(* main.py:74  repo_name = req.task.replace("/", "-") *)
RepoNameOf(task) == replace(task, "/", "-")

(* main.py:75  work_dir = <root>/app/<repo_name> *)
WorkDirOf(repo_name) == <<"app", "/">> \o repo_name

RepoNames == { RepoNameOf(t) : t \in Tasks }

----------------------------------------------------------------------------
(* The working tree. *)

WORKFLOW_PATH == ".github/workflows/pages.yml"

NoFiles == [p \in {} |-> <<>>]

(* A working tree: the directory, its repository (.git: branch, identity,  *)
(* index, commits, the URL of the remote origin) and its files.            *)
EmptyTree ==
    [ exists |-> FALSE, git |-> FALSE, branch |-> "", user_name |-> "",
      user_email |-> "", origin |-> <<>>, index |-> NoFiles, commits |-> <<>>,
      files |-> NoFiles ]

(* Path.write_text: creates or overwrites the file at `path`. *)
write_text_emptying_tree(files, path, content) == [p \in {path} |-> content]

write_text(files, path, content) ==
    [p \in (DOMAIN files) \cup {path} |-> IF p = path THEN content ELSE files[p]]

(* pathlib.Path(local_dir) / path, as the file system resolves it: the     *)
(* working tree the file lies in and its path there.  local_dir is         *)
(* <root>/app/<repo_name>, so a leading ".." leads into <root>/app.        *)
ESCAPING_PATH == "../demo-app/index.html"

resolve(repo_name, path) ==
    IF path = ESCAPING_PATH
    THEN [tree |-> <<"demo", "-", "app">>, path |-> "index.html"]
    ELSE [tree |-> repo_name, path |-> path]

(* generator.py:120-122  p.parent.mkdir(parents=True, exist_ok=True);      *)
(* p.write_text(content): on the disk (all working trees).                 *)
write_file(disk, repo_name, path, content) ==
    LET loc == resolve(repo_name, path)
    IN  [disk EXCEPT ![loc.tree].exists = TRUE,
                     ![loc.tree].files = write_text(@, loc.path, content)]

Location(repo_name, path) ==
    LET loc == resolve(repo_name, path) IN <<loc.tree, loc.path>>

----------------------------------------------------------------------------
(* github_ops.sh and the commands it runs.                                 *)

(* subprocess.run's result: the command's exit status and captured output. *)
Completed(rc, out, err) == [returncode |-> rc, stdout |-> out, stderr |-> err]

GitOk == Completed(0, "", "")
GitFailed == Completed(128, "", "fatal: unable to write")

GitResults == {GitOk, GitFailed}

GhCreated == Completed(0, "https://github.com/<user>/<repo>", "")
GhExists ==
    Completed(1, "", "GraphQL: Name already exists on this account (createRepository)")
GhDenied == Completed(1, "", "HTTP 401: Bad credentials")
GhUsage == Completed(1, "", "accepts at most 1 arg(s), received 2")

(* The tokens of the model's vocabulary that hold a blank: the shell       *)
(* (shell=True) splits the word they stand in.                             *)
HasBlank(s) == \E i \in DOMAIN s : s[i] = "already exists"

(* github_ops.py:46  gh repo create <user>/<repo_name> --public -y *)
GhCommand(user, repo_name) ==
    <<"gh repo create ", user, "/">> \o repo_name \o <<" --public -y">>

(* What `gh repo create` can answer: a name the shell splits in two is a   *)
(* usage error; an existing repository is reported as existing; any call   *)
(* can be refused by the provider.                                         *)
GhResults(repo_name, rem) ==
    IF HasBlank(repo_name) THEN {GhUsage}
    ELSE IF repo_name \in rem THEN {GhExists, GhDenied}
    ELSE {GhCreated, GhDenied}

(* github_ops.py:21-27  sh: raise RuntimeError on a non-zero exit, with    *)
(* the command, stdout and stderr in the message.                          *)
sh(cmd, res) ==
    IF res.returncode # 0
    THEN [ raised |-> TRUE,
           msg |-> <<"Command failed: ">> \o cmd \o <<"\n", res.stdout, "\n", res.stderr>> ]
    ELSE [ raised |-> FALSE, msg |-> <<res.stdout>> ]

(* str.lower, token by token. *)
lower_token(t) ==
    CASE t = "Command failed: " -> "command failed: "
      [] t = "GraphQL: Name already exists on this account (createRepository)"
            -> "graphql: name already exists on this account (createrepository)"
      [] t = "HTTP 401: Bad credentials" -> "http 401: bad credentials"
      [] OTHER -> t

lower(s) == [i \in DOMAIN s |-> lower_token(s[i])]

(* "already exists" in <str>: the tokens of the vocabulary that hold it.   *)
ContainsAlreadyExists(s) ==
    \E i \in DOMAIN s :
        s[i] \in { "already exists",
                   "graphql: name already exists on this account (createrepository)" }

----------------------------------------------------------------------------
(* github_ops.py:30-50  ensure_repo(repo_name, local_dir).                 *)
(* `res` holds the result of each command it runs.  The value is what the  *)
(* call leaves behind: whether it raised, the tree and the remote side.    *)

ShResults(repo_name, rem) ==
    [ init : GitResults, user_name : GitResults, user_email : GitResults,
      gh : GhResults(repo_name, rem) ]

Outcome(exc, t, rem) == [exc |-> exc, tree |-> t, remote |-> rem]

ensure_repo(user, repo_name, t0, rem, res) ==
    IF user = "" THEN Outcome("RuntimeError", t0, rem)             \* _get_user, :12-18
    ELSE
    LET t1 == [t0 EXCEPT !.exists = TRUE]                          \* os.makedirs, :37
        t2 == [t1 EXCEPT !.git = TRUE,                             \* git init -b main, :39
                         !.branch = IF t1.git THEN @ ELSE "main"]
        t3 == [t2 EXCEPT !.user_name = user]                       \* :40
        t4 == [t3 EXCEPT !.user_email = "@users.noreply.github.com"] \* :41
        create == sh(GhCommand(user, repo_name), res.gh)           \* :46
        rem1 == IF res.gh = GhCreated THEN rem \cup {repo_name} ELSE rem
    IN  IF res.init.returncode # 0 THEN Outcome("RuntimeError", t1, rem)
        ELSE IF res.user_name.returncode # 0 THEN Outcome("RuntimeError", t2, rem)
        ELSE IF res.user_email.returncode # 0 THEN Outcome("RuntimeError", t3, rem)
        ELSE IF create.raised /\ ~ContainsAlreadyExists(lower(create.msg))  \* :47-50
             THEN Outcome("RuntimeError", t4, rem1)
        ELSE Outcome("", t4, rem1)

----------------------------------------------------------------------------
(* generator.py *)

(* File contents are token sequences. *)
HTML == <<"<!doctype html>..||", "{DEFAULT_URL}", ";..</html>">>     \* :43-62
CSS == <<"body{font-family:system-ui;..}">>                           \* :63
PAGES_YML == <<"name: Deploy to GitHub Pages..">>                     \* :69-103
ProviderText == <<"text written by the provider">>

(* A dict of a "files" list: the keys it has, and their values. *)
FileEntry(keys, path, content) == [keys |-> keys, path |-> path, content |-> content]

(* generator.py:110  attachments[0].get("url", "") if attachments else "" *)
default_url_of(attachments) ==
    IF attachments # <<>> THEN attachments[1].url ELSE ""

(* generator.py:42-67  builtin_template(default_url) *)
builtin_template_placeholder_kept(default_url) ==
    << FileEntry({"path", "content"}, "index.html", HTML),
       FileEntry({"path", "content"}, "styles.css", CSS) >>

builtin_template(default_url) ==
    << FileEntry({"path", "content"}, "index.html",
                 replace(HTML, "{DEFAULT_URL}", default_url)),
       FileEntry({"path", "content"}, "styles.css", CSS) >>

(* Values of Python as far as materialize_app looks at them: the type,     *)
(* the truth value, and for a list its items.                              *)
PyValue(type, truthy, items) == [type |-> type, truthy |-> truthy, items |-> items]

PyNone == PyValue("NoneType", FALSE, <<>>)
PyList(items) == PyValue("list", items # <<>>, items)

(* A parsed JSON document: its type, truth value, and what .get("files")   *)
(* gives on it when it is a dict (None for a missing key).                 *)
Json(type, truthy, files) == [type |-> type, truthy |-> truthy, files |-> files]

EmptyDict == Json("dict", FALSE, PyNone)

(* Entries of a provider's "files" list: with both keys, or lacking one. *)
ProviderEntries ==
    { FileEntry({"path", "content"}, WORKFLOW_PATH, ProviderText),
      FileEntry({"path", "content"}, ESCAPING_PATH, ProviderText) }

BrokenEntries ==
    { FileEntry({"path"}, "app.js", <<>>),
      FileEntry({"content"}, "", ProviderText) }

(* The lists a provider sends, up to what follows their first broken       *)
(* entry, which the write loop never reads.                                *)
ProviderFileLists ==
    SeqsUpTo(ProviderEntries, MaxFiles)
    \cup { Append(items, b) : items \in SeqsUpTo(ProviderEntries, MaxFiles - 1),
                              b \in BrokenEntries }

FilesValues ==
    { PyNone, PyValue("str", TRUE, <<>>), PyValue("int", TRUE, <<>>) }
    \cup { PyList(items) : items \in ProviderFileLists }

JsonDocuments ==
    { EmptyDict, Json("list", TRUE, PyNone), Json("list", FALSE, PyNone),
      Json("str", TRUE, PyNone), Json("NoneType", FALSE, PyNone) }
    \cup { Json("dict", TRUE, f) : f \in FilesValues }

(* What the HTTP exchange with the provider can come to. *)
ProviderReplies ==
    { [kind |-> k, content |-> EmptyDict] :
        k \in {"network error", "non-200", "content not JSON"} }
    \cup { [kind |-> "content", content |-> d] : d \in JsonDocuments }

(* generator.py:12-40  call_llm: {} unless the exchange gave a 200 whose   *)
(* choices[0].message.content parses as JSON; then the parsed document.    *)
call_llm(configured, reply) ==
    IF ~configured THEN EmptyDict                                  \* :14-15
    ELSE IF reply.kind = "content" THEN reply.content              \* :34
    ELSE EmptyDict                                                 \* :31, :36, :40

(* generator.py:119-122  the loop writing the files, stopping at the first *)
(* entry that raises.  `wrote` collects the locations written.             *)
Written(exc, disk, wrote) == [exc |-> exc, disk |-> disk, wrote |-> wrote]

RECURSIVE write_all(_, _, _, _)
write_all(disk, wrote, n, items) ==
    IF items = <<>> THEN Written("", disk, wrote)
    ELSE LET f == Head(items)
         IN  IF "path" \notin f.keys THEN Written("KeyError", disk, wrote)
             ELSE IF "content" \notin f.keys THEN Written("KeyError", disk, wrote)
             ELSE write_all(write_file(disk, n, f.path, f.content),
                            wrote \cup {Location(n, f.path)}, n, Tail(items))

(* generator.py:112-127  materialize_app after the provider call, for the  *)
(* working tree of repository `n`; `llm` is what call_llm returned.        *)
materialize_app_workflow_first(disk, n, default_url, llm) ==
    IF llm.truthy /\ llm.type # "dict" THEN Written("AttributeError", disk, {})
    ELSE
    LET got == IF llm.truthy THEN llm.files ELSE PyNone
        files == IF ~got.truthy THEN PyList(builtin_template(default_url)) ELSE got
    IN  IF files.type # "list" THEN Written("TypeError", disk, {})
        ELSE write_all(write_file(disk, n, WORKFLOW_PATH, PAGES_YML),
                       {Location(n, WORKFLOW_PATH)}, n, files.items)

materialize_app(disk, n, default_url, llm) ==
    IF llm.truthy /\ llm.type # "dict"                             \* :114 llm.get
    THEN Written("AttributeError", disk, {})
    ELSE
    LET got == IF llm.truthy THEN llm.files ELSE PyNone            \* :114
        files == IF ~got.truthy                                    \* :115-116
                 THEN PyList(builtin_template(default_url)) ELSE got
        written == write_all(disk, {}, n, files.items)             \* :119-122
    IN  IF files.type # "list" THEN Written("TypeError", disk, {})
        ELSE IF written.exc # "" THEN written
        ELSE Written("", write_file(written.disk, n, WORKFLOW_PATH, PAGES_YML),  \* :125-127
                     written.wrote \cup {Location(n, WORKFLOW_PATH)})

----------------------------------------------------------------------------
(* main.py:67-119  accept_task.  A frame is one invocation: its request,   *)
(* the call it is about to make (pc), its locals, the calls it has made    *)
(* (log) and the HTTP response it ended with.                              *)

NoResponse == [code |-> 0, exc |-> "", status |-> "", note |-> "", repo_url |-> <<>>]

(* FastAPI's answer to an exception leaving the handler: the status of an  *)
(* HTTPException, 500 for anything else.                                   *)
ErrorResponse(exc) ==
    [ code |-> IF exc = "HTTPException" THEN 401 ELSE 500, exc |-> exc,
      status |-> "", note |-> "", repo_url |-> <<>> ]

Frames == DOMAIN handler

Idle == {}

(* `after`: the invocations that had ended when this one arrived. *)
NewFrame(req) ==
    [ req |-> req, pc |-> "verify_secret", repo_name |-> <<>>, default_url |-> "",
      create_failed |-> FALSE, llm |-> "", provided |-> {}, wrote |-> {},
      log |-> <<>>,
      response |-> NoResponse,
      after |-> { i \in Frames : handler[i].pc = "ended" } ]

(* What is kept of a frame once its response is sent. *)
Ended(f) == [NewFrame(f.req) EXCEPT !.pc = "ended", !.after = {}]

Raise(f, exc) == [f EXCEPT !.pc = "done", !.response = ErrorResponse(exc)]

Called(f, name) == [f EXCEPT !.log = Append(@, name)]

(* main.py:70  the handler goes on iff verify_secret accepts the secret. *)
secret_ok_unchecked(req) == TRUE

secret_ok(req) == verify_secret(req.secret)

(* Number of positional arguments at the call (main.py:93), and of         *)
(* parameters of the function called (github_ops.py:55).                   *)
ArgsPassed_write_license_and_readme == 3
Params_write_license_and_readme == 2

(* The paths named in a provider's file list. *)
PathsOf(items) == { items[i].path : i \in DOMAIN items }

(* No call of git_push_and_get_commit made yet.  `log` holds the commands  *)
(* run with their exit status, `had_origin` whether the tree had a remote  *)
(* origin when the call began, `created` the commit the call made, `sha`   *)
(* the value it returned.                                                  *)
NoCommit == <<>>

NoPublisher ==
    [ pc |-> "idle", local_dir |-> <<>>, repo_name |-> <<>>, log |-> <<>>,
      had_origin |-> FALSE, created |-> NoCommit, sha |-> NoCommit,
      exc |-> "", calls |-> 0 ]

(* No call of post_with_backoff made yet.  `outcomes` holds what each POST *)
(* met, `waited` the delays slept, the result is (delivered, note).        *)
NoNotifier ==
    [ pc |-> "idle", attempt |-> 0, delay |-> 0, waited |-> 0,
      outcomes |-> <<>>, delivered |-> FALSE, note |-> "" ]

Init ==
    /\ githubUser \in {"", "octo"}
    /\ llmConfigured \in BOOLEAN
    /\ remote = {}
    /\ tree = [n \in RepoNames |-> EmptyTree]
    /\ handler = <<>>
    /\ loop = Idle
    /\ publisher = NoPublisher
    /\ pushed = {}
    /\ notifier = NoNotifier

(* A validated TaskRequest reaches the handler. *)
Receive(req) ==
    /\ Len(handler) < NumRequests
    /\ loop = Idle
    /\ handler' = Append(handler, NewFrame(req))
    /\ loop' = {Len(handler) + 1}
    /\ UNCHANGED <<direct, githubUser, llmConfigured, remote, tree>>

(* main.py:69-75 *)
AuthCheck(r) ==
    /\ handler[r].pc = "verify_secret"
    /\ loop = {r}
    /\ LET f == Called(handler[r], "verify_secret")
       IN  handler' = [handler EXCEPT ![r] =
              IF ~secret_ok(f.req) THEN Raise(f, "HTTPException")
              ELSE [f EXCEPT !.pc = "ensure_repo",
                             !.repo_name = RepoNameOf(f.req.task)]]
    /\ loop' = {r}
    /\ UNCHANGED <<direct, githubUser, llmConfigured, remote, tree>>

(* main.py:78 *)
EnsureRepo(r) ==
    /\ handler[r].pc = "ensure_repo"
    /\ loop = {r}
    /\ LET f == Called(handler[r], "ensure_repo")
           n == f.repo_name
       IN  \E res \in ShResults(n, remote) :
             LET o == ensure_repo(githubUser, n, tree[n], remote, res)
                 ran == /\ githubUser # ""
                        /\ res.init.returncode = 0
                        /\ res.user_name.returncode = 0
                        /\ res.user_email.returncode = 0
                 g == [f EXCEPT !.create_failed =
                                  ran /\ res.gh \in {GhDenied, GhUsage}]
             IN  /\ tree' = [tree EXCEPT ![n] = o.tree]
                 /\ remote' = o.remote
                 /\ handler' = [handler EXCEPT ![r] =
                       IF o.exc # "" THEN Raise(g, o.exc)
                       ELSE [g EXCEPT !.pc = "materialize_app"]]
    /\ loop' = {r}
    /\ UNCHANGED <<direct, githubUser, llmConfigured>>

(* main.py:81-85, generator.py:105-113: up to the await of the provider.   *)
MaterializeCall(r) ==
    /\ handler[r].pc = "materialize_app"
    /\ loop = {r}
    /\ LET f == Called(handler[r], "materialize_app")
           a == f.req.attachments
       IN  /\ tree' = [tree EXCEPT ![f.repo_name].exists = TRUE]          \* :107
           /\ handler' = [handler EXCEPT ![r] =
                 [f EXCEPT !.pc = "call_llm",
                           !.default_url = default_url_of(a)]]                  \* :110
    /\ loop' = IF llmConfigured THEN Idle ELSE {r}                  \* :14, :27
    /\ UNCHANGED <<direct, githubUser, llmConfigured, remote>>

(* generator.py:113-127: the provider call ends, the files are written.    *)
MaterializeReturn(r) ==
    /\ handler[r].pc = "call_llm"
    /\ loop \in {Idle, {r}}
    /\ \E reply \in ProviderReplies :
         LET f == handler[r]
             n == f.repo_name
             llm == call_llm(llmConfigured, reply)
             o == materialize_app(tree, n, f.default_url, llm)
             kind == IF ~llmConfigured \/ reply.kind = "network error" THEN "unavailable"
                     ELSE IF reply.kind = "content" THEN "document"
                     ELSE "rejected"
             own == llm.type = "dict" /\ llm.truthy /\ llm.files.truthy
                      /\ llm.files.type = "list"
             g == [f EXCEPT !.llm = kind, !.wrote = o.wrote,
                            !.provided = IF own THEN PathsOf(llm.files.items) ELSE {}]
         IN  /\ tree' = o.disk
             /\ handler' = [handler EXCEPT ![r] =
                   IF o.exc # "" THEN Raise(g, o.exc)
                   ELSE [g EXCEPT !.pc = "write_license_and_readme",
                                  !.log = Append(@, "materialize_app returned")]]
    /\ loop' = {r}
    /\ UNCHANGED <<direct, githubUser, llmConfigured, remote>>

(* main.py:88-93: three positional arguments for the two parameters of     *)
(* write_license_and_readme(local_dir, brief): the call raises TypeError   *)
(* before the function's body runs.                                        *)
WriteLicenseAndReadme(r) ==
    /\ handler[r].pc = "write_license_and_readme"
    /\ loop = {r}
    /\ LET f == Called(handler[r], "write_license_and_readme")
       IN  IF ArgsPassed_write_license_and_readme = Params_write_license_and_readme
           THEN /\ tree' = [tree EXCEPT ![f.repo_name].files =
                       write_text(write_text(@, "LICENSE", <<"MIT License..">>),
                                  "README.md", <<"# Auto-Built App..">>)]
                /\ handler' = [handler EXCEPT ![r] = [f EXCEPT !.pc = "add_pages_workflow"]]
           ELSE /\ tree' = tree
                /\ handler' = [handler EXCEPT ![r] = Raise(f, "TypeError")]
    /\ loop' = {r}
    /\ UNCHANGED <<direct, githubUser, llmConfigured, remote>>

(* The response (the return value, or the answer to the exception raised)  *)
(* goes to the caller; the coroutine is finished.                          *)
Respond(r) ==
    /\ handler[r].pc = "done"
    /\ loop = {r}
    /\ handler' = [handler EXCEPT ![r] = Ended(@)]
    /\ loop' = Idle
    /\ UNCHANGED <<direct, githubUser, llmConfigured, remote, tree>>

Next ==
    \/ \E req \in Requests : Receive(req)
    \/ \E r \in Frames : AuthCheck(r)
    \/ \E r \in Frames : EnsureRepo(r)
    \/ \E r \in Frames : MaterializeCall(r)
    \/ \E r \in Frames : MaterializeReturn(r)
    \/ \E r \in Frames : WriteLicenseAndReadme(r)
    \/ \E r \in Frames : Respond(r)

Spec == Init /\ [][Next]_vars

----------------------------------------------------------------------------
(* github_ops.py:148  the URL of the remote origin *)
origin_url(user, repo_name) ==
    <<"https://github.com/", user, "/">> \o repo_name \o <<".git">>

(* github_ops.py:136-151  git_push_and_get_commit(local_dir, repo_name),   *)
(* called with the arguments its definition takes, on working trees as     *)
(* ensure_repo, materialize_app and earlier calls of it leave them.        *)

FallbackFiles ==
    write_file([n \in RepoNames |-> EmptyTree], <<"demo", "-", "app">>,
               "index.html", replace(HTML, "{DEFAULT_URL}", ""))
        [<<"demo", "-", "app">>].files

PublisherTrees(n) ==
    { [EmptyTree EXCEPT !.exists = TRUE, !.files = fs] : fs \in {NoFiles, FallbackFiles} }
    \cup
    { [EmptyTree EXCEPT !.exists = TRUE, !.git = TRUE, !.branch = "main",
                        !.user_name = "octo",
                        !.user_email = "@users.noreply.github.com",
                        !.origin = o, !.files = fs] :
        o \in {<<>>, origin_url("octo", n)}, fs \in {NoFiles, FallbackFiles} }

InitPublisher ==
    /\ githubUser \in {"", "octo"}
    /\ llmConfigured = FALSE
    /\ remote = RepoNames
    /\ tree \in [RepoNames -> UNION { PublisherTrees(n) : n \in RepoNames }]
    /\ \A n \in RepoNames : tree[n] \in PublisherTrees(n)
    /\ handler = <<>>
    /\ loop = Idle
    /\ publisher = NoPublisher
    /\ pushed = {}
    /\ notifier = NoNotifier

(* What a git command run in tree `t` can answer: outside a repository it  *)
(* fails.                                                                  *)
GitResultsIn(t) == IF t.git THEN GitResults ELSE {GitFailed}

(* `git remote add origin <url>`: a URL the shell splits in two is a usage *)
(* error.                                                                  *)
RemoteAddResults(t, repo_name) ==
    IF HasBlank(repo_name) THEN {GitFailed} ELSE GitResultsIn(t)

(* `git remote get-url origin` fails iff the tree has no remote origin.    *)
GetUrlResult(t) ==
    IF t.git /\ t.origin # <<>> THEN GitOk
    ELSE Completed(2, "", "error: No such remote 'origin'")

(* The identifier of the commit HEAD points at: `git rev-parse HEAD`       *)
(* prints its full hash.                                                   *)
Head_commit(n, t) == <<n, Len(t.commits)>>

(* github_ops.py:140-151  what follows a command, given whether sh raised: *)
(* only the RuntimeError of `git remote get-url origin` is caught.         *)
then_run_ignoring_exit(cmd, raised) ==
    CASE cmd = "git add ." -> "git commit"
      [] cmd = "git commit" -> "git remote get-url origin"
      [] cmd = "git remote get-url origin" ->
            IF raised THEN "git remote add origin" ELSE "git push"
      [] cmd = "git remote add origin" -> "git push"
      [] cmd = "git push" -> "git rev-parse HEAD"
      [] cmd = "git rev-parse HEAD" -> "returned"

then_run(cmd, raised) ==
    CASE cmd = "git add ." -> IF raised THEN "raised" ELSE "git commit"          \* :140
      [] cmd = "git commit" ->                                                    \* :142
            IF raised THEN "raised" ELSE "git remote get-url origin"
      [] cmd = "git remote get-url origin" ->                                     \* :145-148
            IF raised THEN "git remote add origin" ELSE "git push"
      [] cmd = "git remote add origin" -> IF raised THEN "raised" ELSE "git push" \* :148
      [] cmd = "git push" -> IF raised THEN "raised" ELSE "git rev-parse HEAD"    \* :150
      [] cmd = "git rev-parse HEAD" -> IF raised THEN "raised" ELSE "returned"    \* :151

(* The frame after command `cmd` answered `res`. *)
Ran(p, cmd, res) ==
    LET raised == sh(<<cmd>>, res).raised
        pc == then_run(cmd, raised)
    IN  [p EXCEPT !.pc = pc,
                  !.log = Append(@, [cmd |-> cmd, returncode |-> res.returncode]),
                  !.exc = IF pc = "raised" THEN "RuntimeError" ELSE @]

(* github_ops.py:136-138  the call, and _get_user. *)
PublishCall(d, n) ==
    /\ publisher.pc \in {"idle", "returned", "raised"}
    /\ publisher.calls < MaxCalls
    /\ publisher' =
         [ NoPublisher EXCEPT
             !.local_dir = d, !.repo_name = n,
             !.had_origin = tree[d].origin # <<>>,
             !.calls = publisher.calls + 1,
             !.pc = IF githubUser = "" THEN "raised" ELSE "git add .",
             !.exc = IF githubUser = "" THEN "RuntimeError" ELSE "" ]
    /\ UNCHANGED <<githubUser, llmConfigured, remote, tree, handler, loop,
                   pushed, notifier>>

(* github_ops.py:140  sh("git add .") *)
GitAdd ==
    /\ publisher.pc = "git add ."
    /\ LET d == publisher.local_dir
       IN  \E res \in GitResultsIn(tree[d]) :
             /\ publisher' = Ran(publisher, "git add .", res)
             /\ tree' = IF res.returncode = 0
                        THEN [tree EXCEPT ![d].index = tree[d].files]
                        ELSE tree
    /\ UNCHANGED <<githubUser, llmConfigured, remote, handler, loop, pushed, notifier>>

(* github_ops.py:142  sh('git commit -m "auto: build" --allow-empty') *)
GitCommit ==
    /\ publisher.pc = "git commit"
    /\ LET d == publisher.local_dir
       IN  \E res \in GitResultsIn(tree[d]) :
             LET t == IF res.returncode = 0
                      THEN [tree EXCEPT ![d].commits = Append(@, tree[d].index)]
                      ELSE tree
             IN  /\ tree' = t
                 /\ publisher' =
                      [ Ran(publisher, "git commit", res) EXCEPT
                          !.created = IF res.returncode = 0
                                      THEN Head_commit(d, t[d]) ELSE @ ]
    /\ UNCHANGED <<githubUser, llmConfigured, remote, handler, loop, pushed, notifier>>

(* github_ops.py:145-146  sh("git remote get-url origin") *)
GitRemoteGetUrl ==
    /\ publisher.pc = "git remote get-url origin"
    /\ publisher' = Ran(publisher, "git remote get-url origin",
                        GetUrlResult(tree[publisher.local_dir]))
    /\ UNCHANGED <<githubUser, llmConfigured, remote, tree, handler, loop,
                   pushed, notifier>>

(* github_ops.py:147-148  sh("git remote add origin <url>") *)
GitRemoteAdd ==
    /\ publisher.pc = "git remote add origin"
    /\ LET d == publisher.local_dir
           n == publisher.repo_name
       IN  \E res \in RemoteAddResults(tree[d], n) :
             /\ publisher' = Ran(publisher, "git remote add origin", res)
             /\ tree' = IF res.returncode = 0
                        THEN [tree EXCEPT ![d].origin = origin_url(githubUser, n)]
                        ELSE tree
    /\ UNCHANGED <<githubUser, llmConfigured, remote, handler, loop, pushed, notifier>>

(* github_ops.py:150  sh("git push -u origin main") *)
GitPush ==
    /\ publisher.pc = "git push"
    /\ LET d == publisher.local_dir
       IN  \E res \in GitResultsIn(tree[d]) :
             /\ publisher' = Ran(publisher, "git push", res)
             /\ pushed' = IF res.returncode = 0
                          THEN pushed \cup { [ url |-> tree[d].origin,
                                               commit |-> Head_commit(d, tree[d]) ] }
                          ELSE pushed
    /\ UNCHANGED <<githubUser, llmConfigured, remote, tree, handler, loop, notifier>>

(* github_ops.py:151  return sh("git rev-parse HEAD") *)
GitRevParse ==
    /\ publisher.pc = "git rev-parse HEAD"
    /\ LET d == publisher.local_dir
       IN  \E res \in GitResultsIn(tree[d]) :
             publisher' =
               [ Ran(publisher, "git rev-parse HEAD", res) EXCEPT
                   !.sha = IF res.returncode = 0
                           THEN Head_commit(d, tree[d]) ELSE @ ]
    /\ UNCHANGED <<githubUser, llmConfigured, remote, tree, handler, loop,
                   pushed, notifier>>

NextPublisher ==
    \/ \E d, n \in RepoNames : PublishCall(d, n)
    \/ GitAdd
    \/ GitCommit
    \/ GitRemoteGetUrl
    \/ GitRemoteAdd
    \/ GitPush
    \/ GitRevParse

SpecPublisher == InitPublisher /\ [][NextPublisher]_vars

----------------------------------------------------------------------------
(* notifier.post_with_backoff(url, payload) -> (delivered, note), imported *)
(* at main.py:12 and called at main.py:113: a POST of the payload, tried   *)
(* again after a growing delay when it meets a network error or a status   *)
(* that is not a success, a capped number of times.                        *)

MAX_ATTEMPTS == 4       \* the cap on the POST attempts of one delivery
BASE_DELAY == 1         \* the delay after the first failed attempt

(* What one POST can meet. *)
PostFailures == {"network error", "timeout", "HTTP 500"}
PostOutcomes == {"HTTP 200"} \cup PostFailures

(* Whether a failed attempt is the last one. *)
exhausted_never(attempt) == FALSE

exhausted(attempt) == attempt >= MAX_ATTEMPTS

InitNotifier ==
    /\ githubUser = "octo"
    /\ llmConfigured = FALSE
    /\ remote = {}
    /\ tree = [n \in RepoNames |-> EmptyTree]
    /\ handler = <<>>
    /\ loop = Idle
    /\ publisher = NoPublisher
    /\ pushed = {}
    /\ notifier = NoNotifier

NotifyCall ==
    /\ notifier.pc = "idle"
    /\ notifier' = [NoNotifier EXCEPT !.pc = "post", !.delay = BASE_DELAY]
    /\ UNCHANGED <<githubUser, llmConfigured, remote, tree, handler, loop,
                   publisher, pushed>>

(* One POST attempt: success ends the delivery, a failure is retried or,   *)
(* when the attempts are exhausted, reported in the note.                  *)
Post(outcome) ==
    /\ notifier.pc = "post"
    /\ LET k == notifier.attempt + 1
           q == [notifier EXCEPT !.attempt = k, !.outcomes = Append(@, outcome)]
       IN  notifier' =
             IF outcome = "HTTP 200"
             THEN [q EXCEPT !.pc = "returned", !.delivered = TRUE]
             ELSE IF exhausted(k)
             THEN [q EXCEPT !.pc = "returned", !.delivered = FALSE, !.note = outcome]
             ELSE [q EXCEPT !.pc = "sleep"]
    /\ UNCHANGED <<githubUser, llmConfigured, remote, tree, handler, loop,
                   publisher, pushed>>

(* The backoff: sleep, then double the delay. *)
Backoff ==
    /\ notifier.pc = "sleep"
    /\ notifier' = [notifier EXCEPT !.pc = "post",
                                    !.waited = @ + notifier.delay,
                                    !.delay = 2 * @]
    /\ UNCHANGED <<githubUser, llmConfigured, remote, tree, handler, loop,
                   publisher, pushed>>

NextNotifier ==
    \/ NotifyCall
    \/ \E outcome \in PostOutcomes : Post(outcome)
    \/ Backoff

SpecNotifier == InitNotifier /\ [][NextNotifier]_vars

----------------------------------------------------------------------------
(* Properties. *)

InLog(f, name) == \E i \in DOMAIN f.log : f.log[i] = name

Done(f) == f.pc = "done"

(* The invocation got through provisioning and generation. *)
ReachedAuxiliary(f) == InLog(f, "write_license_and_readme")

NotifyDelivered(f) == InLog(f, "post_with_backoff delivered")

(* C1: in every request the stages run in the canonical order, content     *)
(* generation (materialize_app) having returned before provisioning        *)
(* (ensure_repo) begins.                                                   *)
C1_CanonicalOrder ==
    \A r \in Frames :
      LET log == handler[r].log
      IN  \A i \in DOMAIN log :
            log[i] = "ensure_repo" =>
              \E j \in 1..(i - 1) : log[j] = "materialize_app returned"

(* C2: a request whose secret does not match ends with 401 having made no  *)
(* call but the secret check; while only such requests have arrived, no    *)
(* working tree and no remote repository has been created or written.      *)
C2_BadSecretNoSideEffect ==
    /\ \A r \in Frames :
         LET f == handler[r]
         IN  (~verify_secret(f.req.secret) /\ f.pc \notin {"verify_secret", "ended"}) =>
               /\ Done(f)
               /\ f.response.code = 401
               /\ f.log = <<"verify_secret">>
    /\ (\A r \in Frames : ~verify_secret(handler[r].req.secret)) =>
         /\ tree = [n \in RepoNames |-> EmptyTree]
         /\ remote = {}

C2_Witness ==
    \E r \in Frames :
      /\ ~verify_secret(handler[r].req.secret)
      /\ Done(handler[r])
      /\ handler[r].response.code = 401
      /\ \A o \in Frames : ~verify_secret(handler[o].req.secret)

(* C3: a request with a valid secret whose provider is unconfigured or     *)
(* unreachable, and whose provisioning succeeded, ends with a normal       *)
(* response.                                                               *)
C3_FallbackResponds ==
    \A r \in Frames :
      LET f == handler[r]
      IN  (Done(f) /\ f.llm = "unavailable") =>
            f.response.code = 200

(* C4: ensure_repo returns normally only when the creation call succeeded  *)
(* or failed because the repository already exists, that is only when the  *)
(* repository exists at the provider; after any other failure it raises    *)
(* and the request makes no further call.                                  *)
C4_OtherCreateFailureIsFatal ==
    \A r \in Frames :
      LET f == handler[r]
      IN  InLog(f, "materialize_app") => f.repo_name \in remote

(* C5: whatever the provider returned (nothing, a list without the         *)
(* descriptor, a list with its own file at the descriptor's path), every   *)
(* return of materialize_app leaves the workflow descriptor in the working *)
(* tree with the system's content.                                         *)
C5_DescriptorAlwaysEmitted ==
    [][ \A r \in Frames :
          (handler[r].pc = "call_llm" /\ handler'[r].pc = "write_license_and_readme") =>
            /\ WORKFLOW_PATH \in DOMAIN tree'[handler[r].repo_name].files
            /\ tree'[handler[r].repo_name].files[WORKFLOW_PATH] = PAGES_YML ]_vars

C5_Witness ==
    \E r \in Frames :
      LET f == handler[r]
      IN  /\ f.pc = "write_license_and_readme"
          /\ f.llm = "document"
          /\ WORKFLOW_PATH \in f.provided
          /\ {WORKFLOW_PATH, "index.html"} \subseteq DOMAIN tree[f.repo_name].files
          /\ tree[f.repo_name].files[WORKFLOW_PATH] = PAGES_YML
          /\ tree[f.repo_name].files["index.html"] = ProviderText

(* C6: a finished request that got through provisioning and generation     *)
(* answers "accepted" with a non-empty note when its notification was not  *)
(* delivered, and "ok" without a note when it was.                         *)
C6_AcceptedWhenNotifyFails ==
    \A r \in Frames :
      LET f == handler[r]
      IN  (Done(f) /\ ReachedAuxiliary(f)) =>
            IF NotifyDelivered(f)
            THEN f.response.status = "ok" /\ f.response.note = ""
            ELSE f.response.status = "accepted" /\ f.response.note # ""

(* C7: a finished request that got through provisioning and generation has *)
(* attempted one delivery of its BuildResult before it answered.           *)
C7_NotifyBeforeRespond ==
    \A r \in Frames :
      LET f == handler[r]
      IN  (Done(f) /\ ReachedAuxiliary(f)) =>
            Cardinality({ i \in DOMAIN f.log : f.log[i] = "post_with_backoff" }) = 1

(* C8: every call of materialize_app returns; none raises, whatever the    *)
(* provider answered.                                                      *)
C8_GeneratorNeverRaises ==
    \A r \in Frames :
      LET f == handler[r]
      IN  (Done(f) /\ InLog(f, "materialize_app")) =>
            InLog(f, "materialize_app returned")

(* C9: a request that arrives after an earlier, authorised request for the *)
(* same task identifier has ended, and whose own provisioning and          *)
(* generation went through, ends with its commit pushed.                   *)
C9_RetryPublishes ==
    \A r \in Frames :
      LET f == handler[r]
      IN  (/\ Done(f)
           /\ ReachedAuxiliary(f)
           /\ \E e \in f.after :
                /\ handler[e].req.task = f.req.task
                /\ verify_secret(handler[e].req.secret)) =>
            InLog(f, "git_push_and_get_commit returned")

(* C10: no two requests whose task identifiers give the same repository    *)
(* name are, at the same time, suspended in the provider call between      *)
(* their writes to that working tree.                                      *)
C10_OneRequestPerTree ==
    \A r1, r2 \in Frames :
      (/\ r1 # r2
       /\ llmConfigured
       /\ handler[r1].pc = "call_llm"
       /\ handler[r2].pc = "call_llm") =>
        handler[r1].repo_name # handler[r2].repo_name

(* github_ops.py:158-159  repo_url(repo_name) *)
repo_url(user, repo_name) == <<"https://github.com/", user, "/">> \o repo_name

EndsWith(s, t) ==
    Len(s) >= Len(t) /\ SubSeq(s, Len(s) - Len(t) + 1, Len(s)) = t

Range(s) == { s[i] : i \in DOMAIN s }

(* C11: the repository name of an authorised request is its task           *)
(* identifier with every "/" replaced by "-"; the working tree it uses is  *)
(* the child of that name of the app directory, and the response of a      *)
(* request that got through provisioning and generation carries a          *)
(* repo_url ending in "/" followed by that name.                           *)
C11_OneRepositoryName ==
    \A r \in Frames :
      LET f == handler[r]
      IN  /\ InLog(f, "ensure_repo") =>
                /\ f.repo_name = RepoNameOf(f.req.task)
                /\ "/" \notin Range(f.repo_name)
                /\ Len(f.repo_name) = Len(f.req.task)
                /\ WorkDirOf(f.repo_name) = <<"app", "/">> \o f.repo_name
          /\ (Done(f) /\ ReachedAuxiliary(f)) =>
                EndsWith(f.response.repo_url, <<"/">> \o f.repo_name)

RaisedFrom(exc) ==
    CASE exc = "HTTPException" -> {"verify_secret"}
      [] exc = "RuntimeError" -> {"ensure_repo"}
      [] exc \in {"KeyError", "AttributeError"} -> {"materialize_app"}
      [] exc = "TypeError" -> {"materialize_app", "write_license_and_readme"}
      [] OTHER -> {}

(* The request met a failure: a call raised, or the creation of the       *)
(* remote repository failed for another reason than its existence.         *)
StageFailed(f) == f.response.exc # "" \/ f.create_failed

FailedIn(f) ==
    IF f.create_failed THEN {"ensure_repo"} ELSE RaisedFrom(f.response.exc)

(* C14: when a stage of an authorised request fails, the request is over:  *)
(* the call that failed is the last one it made, and its caller is         *)
(* answered with an error, neither "ok" nor "accepted".                    *)
C14_FailureAborts ==
    \A r \in Frames :
      LET f == handler[r]
      IN  (verify_secret(f.req.secret) /\ StageFailed(f)) =>
            /\ Done(f)
            /\ f.log # <<>>
            /\ f.log[Len(f.log)] \in FailedIn(f)
            /\ f.response.code = 500
            /\ f.response.status \notin {"ok", "accepted"}

(* The locations of the fallback pair and of the workflow descriptor. *)
FallbackLocations(n) ==
    { <<n, "index.html">>, <<n, "styles.css">>, <<n, WORKFLOW_PATH>> }

(* C16: once the provider call of a request is over, the files its         *)
(* materialize_app wrote are the fallback pair and the workflow descriptor *)
(* when the provider gave no non-empty file list, and the provider's files *)
(* and the workflow descriptor, without the fallback pair, when it did.    *)
C16_FallbackOrProviderFiles ==
    \A r \in Frames :
      LET f == handler[r]
          n == f.repo_name
      IN  f.llm # "" =>
            IF f.provided = {}
            THEN f.wrote = FallbackLocations(n)
            ELSE f.wrote = { Location(n, p) : p \in f.provided }
                              \cup { <<n, WORKFLOW_PATH>> }

(* C17: every file materialize_app writes lies in the working tree of the  *)
(* request, whatever the path the provider gave.                           *)
C17_WritesInsideTree ==
    \A r \in Frames :
      \A loc \in handler[r].wrote : loc[1] = handler[r].repo_name

(* C18: when ensure_repo has returned, the working tree is an initialised  *)
(* repository on branch main with the identity set and the remote origin   *)
(* pointing at the URL of the repository.                                  *)
C18_ProvisionedTree ==
    \A r \in Frames :
      LET f == handler[r]
          t == tree[f.repo_name]
      IN  f.pc = "materialize_app" =>
            /\ t.exists
            /\ t.git
            /\ t.branch = "main"
            /\ t.user_name = githubUser
            /\ t.user_email # ""
            /\ t.origin = origin_url(githubUser, f.repo_name)

(* C19: no step deletes a working tree, a repository, a file, a commit or  *)
(* a remote repository, and a file changes content only when the request   *)
(* taking the step writes it; what a request wrote before it failed stays. *)
C19_NothingDeleted ==
    [][ /\ remote \subseteq remote'
        /\ \A n \in RepoNames :
              /\ tree[n].exists => tree'[n].exists
              /\ tree[n].git => tree'[n].git
              /\ Len(tree[n].commits) <= Len(tree'[n].commits)
              /\ SubSeq(tree'[n].commits, 1, Len(tree[n].commits)) = tree[n].commits
              /\ DOMAIN tree[n].files \subseteq DOMAIN tree'[n].files
              /\ \A p \in DOMAIN tree[n].files :
                    tree'[n].files[p] # tree[n].files[p] =>
                      \E r \in Frames :
                        /\ handler[r].pc = "call_llm"
                        /\ <<n, p>> \in handler'[r].wrote ]_vars

C19_Witness ==
    \E r \in Frames :
      LET f == handler[r]
          n == f.repo_name
      IN  /\ f.pc = "write_license_and_readme"
          /\ \E e \in f.after : handler[e].req.task = f.req.task
          /\ f.wrote = { <<n, WORKFLOW_PATH>> }
          /\ "index.html" \in DOMAIN tree[n].files
          /\ tree[n].files["index.html"] = replace(HTML, "{DEFAULT_URL}", "")

(* Two invocations overlap when neither had ended when the other arrived.  *)
Overlap(r, o) ==
    /\ o # r
    /\ handler[r].pc # "ended"
    /\ o < r => o \notin handler[r].after

(* C20: a finished request that got through provisioning and generation    *)
(* while another authorised request for the same task was in flight has    *)
(* made a commit in which every path it wrote holds the content it wrote.  *)
C20_OwnContentCommitted ==
    \A r \in Frames :
      LET f == handler[r]
          n == f.repo_name
          c == tree[n].commits
      IN  (/\ Done(f)
           /\ ReachedAuxiliary(f)
           /\ \E o \in Frames :
                /\ Overlap(r, o)
                /\ handler[o].req.task = f.req.task
                /\ verify_secret(handler[o].req.secret)) =>
            /\ InLog(f, "git_push_and_get_commit returned")
            /\ c # <<>>
            /\ \A loc \in f.wrote :
                  loc[1] = n =>
                    /\ loc[2] \in DOMAIN c[Len(c)]
                    /\ c[Len(c)][loc[2]] = tree[n].files[loc[2]]

(* The commands of a call that returns, in order. *)
Commands(had_origin) ==
    <<"git add .", "git commit", "git remote get-url origin">>
    \o (IF had_origin THEN <<>> ELSE <<"git remote add origin">>)
    \o <<"git push", "git rev-parse HEAD">>

(* C15: git_push_and_get_commit runs, in this order, git add, git commit,  *)
(* git remote get-url origin, git remote add origin iff the tree had no    *)
(* origin, git push and git rev-parse HEAD; a command that exits non-zero  *)
(* (the look-up of origin aside) is the last one run and the call raises;  *)
(* the value returned is the commit made in this call, at HEAD.            *)
C15_PublishInOrder ==
    LET p == publisher
        log == p.log
        all == Commands(p.had_origin)
    IN  /\ Len(log) <= Len(all)
        /\ \A i \in DOMAIN log : log[i].cmd = all[i]
        /\ \A i \in DOMAIN log :
              (log[i].returncode # 0 /\ log[i].cmd # "git remote get-url origin") =>
                /\ i = Len(log)
                /\ p.pc = "raised"
                /\ p.sha = NoCommit
        /\ p.pc = "returned" =>
              /\ Len(log) = Len(all)
              /\ p.sha = p.created
              /\ p.sha = Head_commit(p.local_dir, tree[p.local_dir])
              /\ p.sha # NoCommit
              /\ \E c \in pushed : c.commit = p.sha

C15_Witness ==
    /\ publisher.pc = "returned"
    /\ ~publisher.had_origin
    /\ publisher.calls = 2
    /\ Len(publisher.log) = 6
    /\ Len(tree[publisher.local_dir].commits) = 2

RECURSIVE TotalDelay(_)
TotalDelay(k) == IF k = 0 THEN 0 ELSE BASE_DELAY + 2 * TotalDelay(k - 1)

(* C13: a delivery makes at most MAX_ATTEMPTS POST attempts and waits a    *)
(* bounded time; while it has not returned it can take a step and has      *)
(* attempts left; it returns delivered with the first attempt that         *)
(* succeeds, and not delivered, with a note naming the last failure, when  *)
(* all attempts have failed.                                               *)
C13_DeliveryTerminates ==
    LET q == notifier
        made == q.outcomes
    IN  /\ q.pc \in {"idle", "post", "sleep", "returned"}
        /\ q.attempt = Len(made)
        /\ q.attempt <= MAX_ATTEMPTS
        /\ q.waited <= TotalDelay(MAX_ATTEMPTS - 1)
        /\ q.pc \in {"post", "sleep"} =>
              /\ q.attempt < MAX_ATTEMPTS
              /\ \A i \in DOMAIN made : made[i] \in PostFailures
        /\ q.pc = "returned" =>
              /\ made # <<>>
              /\ \A i \in 1..(Len(made) - 1) : made[i] \in PostFailures
              /\ q.delivered <=> made[Len(made)] = "HTTP 200"
              /\ q.delivered => q.note = ""
              /\ ~q.delivered =>
                    /\ q.attempt = MAX_ATTEMPTS
                    /\ q.note # ""
                    /\ q.note = made[Len(made)]

C13_Witness ==
    /\ notifier.pc = "returned"
    /\ ~notifier.delivered
    /\ notifier.attempt = MAX_ATTEMPTS
    /\ notifier.note = "timeout"

====
